---------------------------- MODULE Spec2Model ----------------------------
(***************************************************************************)
(* Model of run-claude.py: a resumable translation pipeline.               *)
(*   main            plans the job from the dataset and the checkpoint,    *)
(*                   starts the writer process, dispatches process_sample  *)
(*                   tasks on a thread pool, joins them, sends the         *)
(*                   sentinel, joins the writer, writes the CSV report.    *)
(*   process_sample  one attempt per step, retried by tenacity.            *)
(*   writer          merges queue items into its dictionaries and rewrites *)
(*                   the checkpoint file (open "wb", then pickle.dump).    *)
(* The environment may interrupt a run (kill its processes) and start the  *)
(* program again on the same dataset and checkpoint path.                  *)
(***************************************************************************)
EXTENDS Integers, Sequences, FiniteSets, TLC

(* ------------------------------ bounds -------------------------------- *)
NumIds == 2          \* rows of the dataset
MaxPool == 2         \* largest --threadpool_size tried
MaxRuns == 2         \* program starts against one checkpoint path
MaxSample == 1       \* largest --sample_size tried in whole runs

(* ------------------------- program constants -------------------------- *)
MaxAttempts == 6     \* stop_after_attempt(6)
AllSamples == -1     \* --sample_size default: all remaining rows

Ids == 0 .. (NumIds - 1)                  \* data_frame.index (RangeIndex)
SampleSizes == {AllSamples} \cup (0 .. MaxSample)   \* --sample_size in whole runs
PlanSampleSizes == (-2) .. (NumIds + 1)   \* --sample_size when only planning
PoolSizes == 1 .. MaxPool                 \* values of --threadpool_size tried

VARIABLES
    sample_size,        \* args.sample_size
    threadpool_size,    \* args.threadpool_size
    field_ok,           \* args.field is a column of data_frame
    run,                \* number of the current program start
    file,               \* the checkpoint file at args.output_file
    startFile,          \* the checkpoint file as it was when this run started
    prevEnd,            \* how the previous run ended: "none", "done", "error", "killed"
    mainPc,             \* position of main
    requesed_ids,       \* main: keys of the checkpoint loaded at startup
    sample_bag,         \* main: the job plan
    dispatched,         \* main: number of apply_async calls made
    taskState,          \* per id: "none", "pending", "running", "ok", "failed"
    attempt,            \* per id: tenacity's attempt number of the task in flight
    calls,              \* per id: chat_query invocations made by the task in flight
    succ,               \* per id: chat_query calls that returned, over all runs
    queue,              \* the manager queue
    pbar,               \* tqdm counter (pbar.n)
    pbarTotal,          \* tqdm total
    writerPc,           \* position of the writer process
    wmem,               \* writer: its three dictionaries
    fileWriters,        \* processes holding the checkpoint file open for writing
    csv                 \* the report of this run: times written and rows

vars == <<sample_size, threadpool_size, field_ok, run, file, startFile, prevEnd,
          mainPc,
          requesed_ids, sample_bag, dispatched, taskState, attempt, calls,
          succ, queue, pbar, pbarTotal, writerPc, wmem, fileWriters, csv>>

(* ------------------------------ helpers ------------------------------- *)
EmptyMap == [k \in {} |-> 0]

EmptyRecord ==
    [query_inputs |-> EmptyMap, llm_responses |-> EmptyMap,
     llm_full_responses |-> EmptyMap]

\* an assignment in place of the update
UpdateDropOld(a, b) == b

\* dict.update
Update(a, b) ==
    [k \in (DOMAIN a) \cup (DOMAIN b) |-> IF k \in DOMAIN b THEN b[k] ELSE a[k]]

\* a merge without lines 41-42
MergeInputsOnly(mem, item) ==
    [query_inputs |-> Update(mem.query_inputs, item.query_inputs),
     llm_responses |-> mem.llm_responses,
     llm_full_responses |-> mem.llm_full_responses]

\* the three updates of the writer's merge
Merge(mem, item) ==
    [query_inputs |-> Update(mem.query_inputs, item.query_inputs),
     llm_responses |-> Update(mem.llm_responses, item.llm_responses),
     llm_full_responses |-> Update(mem.llm_full_responses, item.llm_full_responses)]

\* the checkpoint file: absent, truncated (opened "wb", dump not finished), or a pickle
AbsentFile == [state |-> "absent", data |-> EmptyRecord]
TruncatedFile == [state |-> "truncated", data |-> EmptyRecord]
PickleFile(d) == [state |-> "ok", data |-> d]

\* data_frame.loc[sample_id][field]
Content(id) == 10 + id

\* chat_query in run r: the response object and its completion
Response(id, r) == <<id, r>>
Completion(y) == 100 * y[2] + y[1]

\* process_sample without line 84: the raw response is not recorded
ItemNoFull(id, r) ==
    [sentinel |-> FALSE,
     query_inputs |-> [k \in {id} |-> Content(id)],
     llm_responses |-> [k \in {id} |-> Completion(Response(id, r))],
     llm_full_responses |-> EmptyMap]

\* the tuple process_sample puts on the queue
Item(id, r) ==
    [sentinel |-> FALSE,
     query_inputs |-> [k \in {id} |-> Content(id)],
     llm_responses |-> [k \in {id} |-> Completion(Response(id, r))],
     llm_full_responses |-> [k \in {id} |-> Response(id, r)]]

Sentinel ==
    [sentinel |-> TRUE, query_inputs |-> EmptyMap, llm_responses |-> EmptyMap,
     llm_full_responses |-> EmptyMap]

\* names of the processes and threads that can open the checkpoint file
WriterProcess == <<"writer">>
WorkerThread(id) == <<"worker", id>>

Range(s) == {s[i] : i \in DOMAIN s}

\* sequences of k distinct members of S
DistinctSeqs(S, k) ==
    {s \in [1 .. k -> S] : \A i, j \in 1 .. k : i # j => s[i] # s[j]}

\* index.tolist() of a frame in index order
IndexList(S) ==
    CHOOSE s \in DistinctSeqs(S, Cardinality(S)) :
        \A i, j \in 1 .. Cardinality(S) : i < j => s[i] < s[j]

\* the frame without the isin filter
RemainingAll(done) == Ids

\* data_frame[~data_frame.index.isin(requesed_ids)]
Remaining(done) == Ids \ done

\* the plans main can compute; the empty set when DataFrame.sample raises
Plans(remaining, k) ==
    IF k = AllSamples THEN {IndexList(remaining)}
    ELSE IF k < 0 \/ k > Cardinality(remaining) THEN {}
    ELSE DistinctSeqs(remaining, k)

Terminal(id) == taskState[id] \in {"ok", "failed"}
InFlight == {id \in Ids : taskState[id] = "running"}

\* a pool that starts a thread for every task
IdleThreadAlways == TRUE

\* the pool has a thread that is not running a task
IdleThread == Cardinality(InFlight) < threadpool_size

\* the first task waiting in the pool's task queue
NextTask(id) ==
    \E i \in 1 .. dispatched :
        /\ sample_bag[i] = id
        /\ taskState[id] = "pending"
        /\ \A j \in 1 .. (i - 1) : taskState[sample_bag[j]] # "pending"

(* ------------------------------- Init --------------------------------- *)
NoTasks == [id \in Ids |-> "none"]
Zeros == [id \in Ids |-> 0]
NoCsv == [written |-> 0, rows |-> EmptyMap]

Init ==
    /\ sample_size \in SampleSizes
    /\ threadpool_size \in PoolSizes
    /\ field_ok \in BOOLEAN
    /\ run = 1
    /\ file = AbsentFile
    /\ startFile = AbsentFile
    /\ prevEnd = "none"
    /\ mainPc = "plan"
    /\ requesed_ids = {}
    /\ sample_bag = <<>>
    /\ dispatched = 0
    /\ taskState = NoTasks
    /\ attempt = Zeros
    /\ calls = Zeros
    /\ succ = Zeros
    /\ queue = <<>>
    /\ pbar = 0
    /\ pbarTotal = 0
    /\ writerPc = "none"
    /\ wmem = EmptyRecord
    /\ fileWriters = {}
    /\ csv = NoCsv

(* ------------------------------- main --------------------------------- *)
\* a load that treats an unreadable checkpoint as no checkpoint
LoadableAlways(f) == TRUE

\* lines 160-161: open and pickle.load succeed (an absent file is not opened)
Loadable(f) == f.state # "truncated"

\* lines 157-174: load the checkpoint's query_inputs and compute the plan
MainPlan ==
    /\ mainPc = "plan"
    /\ IF ~Loadable(file)
       THEN \* pickle.load raises
            /\ mainPc' = "error"
            /\ UNCHANGED <<requesed_ids, sample_bag>>
       ELSE LET prev == DOMAIN file.data.query_inputs
                plans == Plans(Remaining(prev), sample_size)
            IN  /\ requesed_ids' = prev
                /\ IF plans = {}
                   THEN \* DataFrame.sample raises ValueError
                        /\ mainPc' = "error"
                        /\ UNCHANGED sample_bag
                   ELSE /\ mainPc' = "start"
                        /\ sample_bag' \in plans
    /\ UNCHANGED <<sample_size, threadpool_size, field_ok, run, file, startFile, prevEnd, dispatched,
                   taskState, attempt, calls, succ, queue, pbar, pbarTotal,
                   writerPc, wmem, fileWriters, csv>>

\* lines 180-191: queue, progress bar, writer process, thread pool
MainStart ==
    /\ mainPc = "start"
    /\ queue' = <<>>
    /\ pbar' = 0
    /\ pbarTotal' = Len(sample_bag)
    /\ writerPc' = "load"
    /\ mainPc' = "dispatch"
    /\ UNCHANGED <<sample_size, threadpool_size, field_ok, run, file, startFile, prevEnd,
                   requesed_ids, sample_bag, dispatched, taskState, attempt,
                   calls, succ, wmem, fileWriters, csv>>

\* lines 192-204: one apply_async
MainDispatch ==
    /\ mainPc = "dispatch"
    /\ dispatched < Len(sample_bag)
    /\ dispatched' = dispatched + 1
    /\ taskState' = [taskState EXCEPT ![sample_bag[dispatched + 1]] = "pending"]
    /\ UNCHANGED <<sample_size, threadpool_size, field_ok, run, file, startFile, prevEnd, mainPc,
                   requesed_ids, sample_bag, attempt, calls, succ, queue, pbar,
                   pbarTotal, writerPc, wmem, fileWriters, csv>>

\* a main that does not wait for the tasks
AllJoinedNoWait == TRUE

\* a join that re-raises the error of a failed task
AllJoinedRaises ==
    /\ \A id \in Range(sample_bag) : Terminal(id)
    /\ \A id \in Range(sample_bag) : taskState[id] # "failed"

\* a join that gives up on the first task that raised
AllJoinedFailFast ==
    \/ \E id \in Range(sample_bag) : taskState[id] = "failed"
    \/ \A id \in Range(sample_bag) : Terminal(id)

\* lines 207-208: async_result.wait() returns for every task, whether it
\* returned or raised; wait() does not re-raise
AllJoined == \A id \in Range(sample_bag) : Terminal(id)

MainWait ==
    /\ mainPc = "dispatch"
    /\ dispatched = Len(sample_bag)
    /\ AllJoined
    /\ mainPc' = "sentinel"
    /\ UNCHANGED <<sample_size, threadpool_size, field_ok, run, file, startFile, prevEnd,
                   requesed_ids, sample_bag, dispatched, taskState, attempt,
                   calls, succ, queue, pbar, pbarTotal, writerPc, wmem,
                   fileWriters, csv>>

\* a main that never signals the end of the stream
SentinelForgotten == queue

\* line 210: queue.put(None)
SentinelPut == Append(queue, Sentinel)

MainSentinel ==
    /\ mainPc = "sentinel"
    /\ queue' = SentinelPut
    /\ mainPc' = "join"
    /\ UNCHANGED <<sample_size, threadpool_size, field_ok, run, file, startFile, prevEnd,
                   requesed_ids, sample_bag, dispatched, taskState, attempt,
                   calls, succ, pbar, pbarTotal, writerPc, wmem, fileWriters, csv>>

\* line 211
MainJoin ==
    /\ mainPc = "join"
    /\ writerPc \in {"exit", "dead"}
    /\ mainPc' = "report"
    /\ UNCHANGED <<sample_size, threadpool_size, field_ok, run, file, startFile, prevEnd,
                   requesed_ids, sample_bag, dispatched, taskState, attempt,
                   calls, succ, queue, pbar, pbarTotal, writerPc, wmem,
                   fileWriters, csv>>

\* str(v) of a response object
Str(v) == <<"str", v>>

\* a cell of the frame: the value, or nothing (NaN) where the series has no such key
Cell(m, id) == IF id \in DOMAIN m THEN <<m[id]>> ELSE <<>>

\* a frame whose first two columns are fed from each other's mapping
FrameSwapped(data) ==
    LET full == [k \in DOMAIN data.llm_full_responses |->
                    Str(data.llm_full_responses[k])]
        index == (DOMAIN data.query_inputs) \cup (DOMAIN data.llm_responses)
                     \cup (DOMAIN full)
    IN  [id \in index |->
            [query_inputs |-> Cell(data.llm_responses, id),
             responses |-> Cell(data.query_inputs, id),
             full_responses |-> Cell(full, id)]]

\* lines 111-119: the frame built from the three series
Frame(data) ==
    LET full == [k \in DOMAIN data.llm_full_responses |->
                    Str(data.llm_full_responses[k])]
        index == (DOMAIN data.query_inputs) \cup (DOMAIN data.llm_responses)
                     \cup (DOMAIN full)
    IN  [id \in index |->
            [query_inputs |-> Cell(data.query_inputs, id),
             responses |-> Cell(data.llm_responses, id),
             full_responses |-> Cell(full, id)]]

\* lines 213-216: pickle_to_csv
MainReport ==
    /\ mainPc = "report"
    /\ IF file.state = "ok"
       THEN /\ csv' = [written |-> csv.written + 1, rows |-> Frame(file.data)]
            /\ mainPc' = "done"
       ELSE \* open or pickle.load raises
            /\ mainPc' = "error"
            /\ UNCHANGED csv
    /\ UNCHANGED <<sample_size, threadpool_size, field_ok, run, file, startFile, prevEnd,
                   requesed_ids, sample_bag, dispatched, taskState, attempt,
                   calls, succ, queue, pbar, pbarTotal, writerPc, wmem,
                   fileWriters>>

(* --------------------------- process_sample --------------------------- *)
\* a pool thread takes the next task from the pool's queue
StartTask(id) ==
    /\ NextTask(id)
    /\ IdleThread
    /\ taskState' = [taskState EXCEPT ![id] = "running"]
    /\ attempt' = [attempt EXCEPT ![id] = 1]
    /\ UNCHANGED <<sample_size, threadpool_size, field_ok, run, file, startFile, prevEnd, mainPc,
                   requesed_ids, sample_bag, dispatched, calls, succ, queue,
                   pbar, pbarTotal, writerPc, wmem, fileWriters, csv>>

\* a retry budget that is one attempt short
StopRetryingEarly(n) == n >= MaxAttempts - 1

\* tenacity: stop_after_attempt
StopRetrying(n) == n >= MaxAttempts

\* a task that merges its result into the checkpoint file itself
HandOffDirect(id) ==
    /\ file' = PickleFile(Merge(file.data, Item(id, run)))
    /\ fileWriters' = fileWriters \cup {WorkerThread(id)}
    /\ UNCHANGED queue

\* line 87: the result goes on the queue; the task does not touch the checkpoint file
HandOff(id) ==
    /\ queue' = Append(queue, Item(id, run))
    /\ UNCHANGED <<file, fileWriters>>

\* lines 73-94, an attempt in which chat_query returns
AttemptOk(id) ==
    /\ taskState[id] = "running"
    /\ field_ok
    /\ calls' = [calls EXCEPT ![id] = 0]
    /\ attempt' = [attempt EXCEPT ![id] = 0]
    /\ succ' = [succ EXCEPT ![id] = @ + 1]
    /\ HandOff(id)
    /\ pbar' = pbar + 1
    /\ taskState' = [taskState EXCEPT ![id] = "ok"]
    /\ UNCHANGED <<sample_size, threadpool_size, field_ok, run, startFile, prevEnd, mainPc,
                   requesed_ids, sample_bag, dispatched, pbarTotal, writerPc,
                   wmem, csv>>

\* lines 73-94, an attempt that raises: KeyError at line 79 when the field is no
\* column (chat_query is not reached), else chat_query raises at line 80;
\* tenacity retries or gives up
AttemptFail(id) ==
    /\ taskState[id] = "running"
    /\ pbar' = pbar + 1
    /\ IF StopRetrying(attempt[id])
       THEN /\ taskState' = [taskState EXCEPT ![id] = "failed"]
            /\ attempt' = [attempt EXCEPT ![id] = 0]
            /\ calls' = [calls EXCEPT ![id] = 0]
       ELSE /\ attempt' = [attempt EXCEPT ![id] = @ + 1]
            /\ calls' = [calls EXCEPT ![id] = IF field_ok THEN @ + 1 ELSE @]
            /\ UNCHANGED taskState
    /\ UNCHANGED <<sample_size, threadpool_size, field_ok, run, file, startFile, prevEnd, mainPc,
                   requesed_ids, sample_bag, dispatched, succ, queue, pbarTotal,
                   writerPc, wmem, fileWriters, csv>>

(* ------------------------------- writer ------------------------------- *)
\* lines 16-26
WriterLoad ==
    /\ writerPc = "load"
    /\ IF file.state = "truncated"
       THEN /\ writerPc' = "dead"
            /\ UNCHANGED wmem
       ELSE /\ writerPc' = "get"
            /\ wmem' = file.data
    /\ UNCHANGED <<sample_size, threadpool_size, field_ok, run, file, startFile, prevEnd, mainPc,
                   requesed_ids, sample_bag, dispatched, taskState, attempt,
                   calls, succ, queue, pbar, pbarTotal, fileWriters, csv>>

\* lines 29-45: take an item; on the sentinel leave the loop, else merge the
\* item and open the checkpoint file with mode "wb", which truncates it
WriterGet ==
    /\ writerPc = "get"
    /\ queue # <<>>
    /\ queue' = Tail(queue)
    /\ IF Head(queue).sentinel
       THEN /\ writerPc' = "exit"
            /\ UNCHANGED <<wmem, file, fileWriters>>
       ELSE /\ writerPc' = "dump"
            /\ wmem' = Merge(wmem, Head(queue))
            /\ file' = TruncatedFile
            /\ fileWriters' = fileWriters \cup {WriterProcess}
    /\ UNCHANGED <<sample_size, threadpool_size, field_ok, run, startFile, prevEnd, mainPc,
                   requesed_ids, sample_bag, dispatched, taskState, attempt,
                   calls, succ, pbar, pbarTotal, csv>>

\* lines 46-51: pickle.dump and close
WriterDump ==
    /\ writerPc = "dump"
    /\ file' = PickleFile(wmem)
    /\ fileWriters' = fileWriters \ {WriterProcess}
    /\ writerPc' = "get"
    /\ UNCHANGED <<sample_size, threadpool_size, field_ok, run, startFile, prevEnd, mainPc,
                   requesed_ids, sample_bag, dispatched, taskState, attempt,
                   calls, succ, queue, pbar, pbarTotal, wmem, csv>>

(* ---------------------------- environment ----------------------------- *)
\* the run is killed: main, the pool threads and the writer stop where they are
Interrupt ==
    /\ run < MaxRuns
    /\ mainPc \notin {"done", "error", "killed"}
    /\ mainPc' = "killed"
    /\ writerPc' = "none"
    /\ fileWriters' = {}
    /\ queue' = <<>>
    /\ taskState' = NoTasks
    /\ attempt' = Zeros
    /\ calls' = Zeros
    /\ sample_bag' = <<>>
    /\ dispatched' = 0
    /\ requesed_ids' = {}
    /\ pbar' = 0
    /\ pbarTotal' = 0
    /\ wmem' = EmptyRecord
    /\ UNCHANGED <<sample_size, threadpool_size, field_ok, run, file, startFile, prevEnd, succ, csv>>

\* the program is started again with the same arguments
NextRun ==
    /\ run < MaxRuns
    /\ mainPc \in {"done", "error", "killed"}
    /\ run' = run + 1
    /\ startFile' = file
    /\ prevEnd' = mainPc
    /\ mainPc' = "plan"
    /\ writerPc' = "none"
    /\ fileWriters' = {}
    /\ queue' = <<>>
    /\ taskState' = NoTasks
    /\ attempt' = Zeros
    /\ calls' = Zeros
    /\ sample_bag' = <<>>
    /\ dispatched' = 0
    /\ requesed_ids' = {}
    /\ pbar' = 0
    /\ pbarTotal' = 0
    /\ wmem' = EmptyRecord
    /\ csv' = NoCsv
    /\ UNCHANGED <<sample_size, threadpool_size, field_ok, file, succ>>

Next ==
    \/ MainPlan
    \/ MainStart
    \/ MainDispatch
    \/ MainWait
    \/ MainSentinel
    \/ MainJoin
    \/ MainReport
    \/ \E id \in Ids : StartTask(id)
    \/ \E id \in Ids : AttemptOk(id)
    \/ \E id \in Ids : AttemptFail(id)
    \/ WriterLoad
    \/ WriterGet
    \/ WriterDump
    \/ Interrupt
    \/ NextRun

Spec == Init /\ [][Next]_vars

(* ------------------- one run that is left to finish ------------------- *)
NextLive ==
    \/ MainPlan
    \/ MainStart
    \/ MainDispatch
    \/ MainWait
    \/ MainSentinel
    \/ MainJoin
    \/ MainReport
    \/ \E id \in Ids : StartTask(id)
    \/ \E id \in Ids : AttemptOk(id)
    \/ \E id \in Ids : AttemptFail(id)
    \/ WriterLoad
    \/ WriterGet
    \/ WriterDump

\* main, the writer process and every pool thread keep running; every
\* chat_query call returns or raises, and every backoff sleep ends
Fairness ==
    /\ WF_vars(MainPlan) /\ WF_vars(MainStart) /\ WF_vars(MainDispatch)
    /\ WF_vars(MainWait) /\ WF_vars(MainSentinel) /\ WF_vars(MainJoin)
    /\ WF_vars(MainReport)
    /\ WF_vars(WriterLoad) /\ WF_vars(WriterGet) /\ WF_vars(WriterDump)
    /\ \A id \in Ids : WF_vars(StartTask(id))
    /\ \A id \in Ids : WF_vars(AttemptOk(id) \/ AttemptFail(id))

SpecLive == Init /\ [][NextLive]_vars /\ Fairness

(* ---------------------- planning on any checkpoint -------------------- *)
\* a checkpoint left by earlier runs that translated the ids of S
PriorRecord(S) ==
    [query_inputs |-> [k \in S |-> Content(k)],
     llm_responses |-> [k \in S |-> Completion(Response(k, 0))],
     llm_full_responses |-> [k \in S |-> Response(k, 0)]]

PriorFiles == {AbsentFile} \cup {PickleFile(PriorRecord(S)) : S \in SUBSET Ids}

InitPlan ==
    /\ sample_size \in PlanSampleSizes
    /\ threadpool_size \in PoolSizes
    /\ field_ok \in BOOLEAN
    /\ run = 1
    /\ file \in PriorFiles
    /\ startFile = file
    /\ prevEnd = "none"
    /\ mainPc = "plan"
    /\ requesed_ids = {}
    /\ sample_bag = <<>>
    /\ dispatched = 0
    /\ taskState = NoTasks
    /\ attempt = Zeros
    /\ calls = Zeros
    /\ succ = Zeros
    /\ queue = <<>>
    /\ pbar = 0
    /\ pbarTotal = 0
    /\ writerPc = "none"
    /\ wmem = EmptyRecord
    /\ fileWriters = {}
    /\ csv = NoCsv

NextPlan ==
    \/ MainPlan
    \/ MainStart
    \/ MainDispatch

SpecPlan == InitPlan /\ [][NextPlan]_vars

(* ====================== properties of the program ======================= *)
CheckpointIds(f) ==
    (DOMAIN f.data.query_inputs) \cup (DOMAIN f.data.llm_responses)
        \cup (DOMAIN f.data.llm_full_responses)

SameKeys(d) ==
    /\ DOMAIN d.query_inputs = DOMAIN d.llm_responses
    /\ DOMAIN d.llm_responses = DOMAIN d.llm_full_responses

Min(a, b) == IF a <= b THEN a ELSE b

\* main has computed its plan and gone on
Planned == mainPc \in {"start", "dispatch", "sentinel", "join", "report", "done"}

\* main has left the pool's with-block
Joined == mainPc \in {"sentinel", "join", "report", "done"}

\* C1: a run killed at any point of a persist leaves a checkpoint file that a
\* later load can read in full (the previous record or the new one), never an
\* empty or truncated file.
C1_AtomicPersist == mainPc = "killed" => file.state \in {"absent", "ok"}

\* C2: after every successful persist the three mappings of the checkpoint
\* have the same key set.
C2_SameKeySets == file.state = "ok" => SameKeys(file.data)

\* C2: the writer has persisted new results on top of a checkpoint it loaded.
C2_Witness ==
    /\ run = 2
    /\ startFile.state = "ok"
    /\ CheckpointIds(startFile) # {}
    /\ file.state = "ok"
    /\ CheckpointIds(file) = Ids
    /\ CheckpointIds(startFile) # Ids

\* C3: with sample_size = -1 and no task failing, a run that follows an
\* interrupted run ends with a checkpoint whose key set is the dataset's id
\* set, and no id had more than one successful translator call over both runs.
C3_IdempotentResumption ==
    (/\ run = 2
     /\ prevEnd = "killed"
     /\ sample_size = AllSamples
     /\ mainPc \in {"done", "error"}
     /\ \A id \in Ids : taskState[id] # "failed")
    => (/\ file.state = "ok"
        /\ DOMAIN file.data.query_inputs = Ids
        /\ \A id \in Ids : succ[id] <= 1)

\* C4: the plan holds no id of the checkpoint loaded at startup; with
\* sample_size = -1 it is exactly the dataset ids minus the checkpoint ids;
\* no task is dispatched for an id of the checkpoint.
C4_PlanExcludesCheckpoint ==
    /\ Planned => Range(sample_bag) \subseteq (Ids \ CheckpointIds(startFile))
    /\ (Planned /\ sample_size = AllSamples)
           => Range(sample_bag) = Ids \ CheckpointIds(startFile)
    /\ \A id \in Ids : taskState[id] # "none" => id \notin CheckpointIds(startFile)

\* C4: a sampled plan has been dispatched in full on top of a checkpoint.
C4_Witness ==
    /\ mainPc = "dispatch"
    /\ sample_size = 1
    /\ dispatched = 1
    /\ CheckpointIds(startFile) # {}

\* C5: for every sample_size k >= 0 planning does not raise and returns
\* min(k, |remaining|) distinct ids of remaining.
C5_SampleCaps ==
    (mainPc # "plan" /\ sample_size >= 0)
    => (/\ mainPc # "error"
        /\ Len(sample_bag) =
               Min(sample_size, Cardinality(Ids \ CheckpointIds(startFile)))
        /\ Cardinality(Range(sample_bag)) = Len(sample_bag)
        /\ Range(sample_bag) \subseteq (Ids \ CheckpointIds(startFile)))

\* C6: at most threadpool_size process_sample tasks are in flight.
C6_BoundedInFlight == Cardinality(InFlight) <= threadpool_size

\* C6: every pool thread is busy, one of them in a retry, and a task waits.
C6_Witness ==
    /\ Cardinality(InFlight) = threadpool_size
    /\ \E id \in Ids : taskState[id] = "pending"
    /\ \E id \in InFlight : attempt[id] > 1

\* C7: main leaves the pool only when every planned task is terminal, whatever
\* failed, and every task that succeeded is in the checkpoint at the report.
C7_IndependentTasks ==
    /\ Joined => \A id \in Range(sample_bag) : Terminal(id)
    /\ mainPc \in {"report", "done"} =>
           \A id \in Range(sample_bag) :
               taskState[id] = "ok" =>
                   file.state = "ok" /\ id \in DOMAIN file.data.query_inputs

\* C7: a run ended in which one task failed and another succeeded and was persisted.
C7_Witness ==
    /\ mainPc = "done"
    /\ \E id \in Ids : taskState[id] = "failed"
    /\ \E id \in Ids :
           taskState[id] = "ok" /\ id \in DOMAIN file.data.query_inputs

\* a failed task's id is in no queue item, not in the writer's dictionaries and
\* not in the checkpoint
FailedNotHanded ==
    \A id \in Ids :
        taskState[id] = "failed" =>
            /\ \A i \in DOMAIN queue : id \notin DOMAIN queue[i].query_inputs
            /\ id \notin DOMAIN wmem.query_inputs
            /\ id \notin CheckpointIds(file)

RetryStep ==
    \A id \in Ids :
        /\ (taskState[id] = "running" /\ taskState'[id] = "failed")
               => ((field_ok => calls[id] + 1 = MaxAttempts) /\ queue' = queue)
        /\ (taskState[id] = "running" /\ taskState'[id] = "ok")
               => (calls[id] + 1 = attempt[id] /\ attempt[id] <= MaxAttempts)
        /\ (taskState[id] = "running" /\ taskState'[id] = "running")
               => calls'[id] < MaxAttempts
        /\ (Terminal(id) /\ run' = run /\ mainPc' # "killed")
               => (taskState'[id] = taskState[id] /\ calls'[id] = 0)

\* C8: a task whose translator calls fail ends in failure exactly at its 6th
\* translator call and hands nothing to the writer; a task that succeeds on attempt k has made exactly k
\* calls; a terminal task makes no further call in the run.
C8_RetryBudget == [](FailedNotHanded) /\ [][RetryStep]_vars

\* C8: a task has exhausted its retries.
C8_Witness ==
    field_ok /\ \E id \in Ids : taskState[id] = "failed" /\ pbar >= MaxAttempts

\* C9: the progress counter equals the number of terminal work items, and the
\* number of planned items once the pool is joined.
C9_ProgressOncePerItem ==
    /\ pbar = Cardinality({id \in Ids : Terminal(id)})
    /\ Joined => pbar = Len(sample_bag)

\* C10: only the writer process ever holds the checkpoint file open for
\* writing, and the file changes only in the writer's hands.
C10_SingleWriter ==
    /\ [](fileWriters \subseteq {WriterProcess})
    /\ [][file' # file =>
            (WriterProcess \in fileWriters \/ WriterProcess \in fileWriters')]_vars

\* C10: the writer is rewriting the checkpoint while a task is in flight.
C10_Witness == fileWriters = {WriterProcess} /\ InFlight # {}

\* the sentinel is the last message and follows the join of every task; a
\* writer that has left its loop holds nothing
SentinelLast ==
    /\ \A i \in DOMAIN queue :
           queue[i].sentinel =>
               /\ i = Len(queue)
               /\ dispatched = Len(sample_bag)
               /\ \A id \in Range(sample_bag) : Terminal(id)
    /\ writerPc = "exit" => (queue = <<>> /\ fileWriters = {})

\* C11: the sentinel is put only after every dispatched task is terminal and
\* is the last message of the queue; once the writer has received it, the
\* checkpoint file is not written again.
C11_SentinelLast ==
    /\ [](SentinelLast)
    /\ [][writerPc = "exit" => file' = file]_vars

\* C11: the writer has left its loop after persisting the results of a full plan.
C11_Witness ==
    /\ writerPc = "exit"
    /\ file.state = "ok"
    /\ Len(sample_bag) = NumIds

\* C12: the report has one row for every id of the checkpoint and no other,
\* each with that id's input, translation and rendered raw response; a fully
\* processed dataset gives NumIds rows.
C12_ReportRows ==
    mainPc = "done" =>
        /\ DOMAIN csv.rows = CheckpointIds(file)
        /\ \A id \in DOMAIN csv.rows :
               /\ csv.rows[id].query_inputs = <<file.data.query_inputs[id]>>
               /\ csv.rows[id].responses = <<file.data.llm_responses[id]>>
               /\ csv.rows[id].full_responses =
                      <<Str(file.data.llm_full_responses[id])>>
        /\ CheckpointIds(file) = Ids => Cardinality(DOMAIN csv.rows) = NumIds

\* C12: the report of a fully processed dataset has been written.
C12_Witness == mainPc = "done" /\ DOMAIN csv.rows = Ids /\ csv.written = 1

\* C13: a run with exhausted-retry failures still ends with the report
\* written; the failed ids are not in the checkpoint, and the next run (with
\* sample_size = -1) plans every id the checkpoint lacks.
C13_FailuresStillComplete ==
    /\ ((\E id \in Ids : taskState[id] = "failed") /\ mainPc \in {"done", "error"})
           => /\ mainPc = "done"
              /\ csv.written = 1
              /\ \A id \in Ids :
                     taskState[id] = "failed" => id \notin CheckpointIds(file)
    /\ (run > 1 /\ Planned /\ sample_size = AllSamples)
           => (Ids \ CheckpointIds(startFile)) \subseteq Range(sample_bag)

\* C14 as stated: once a task has exhausted its retries, main does not go on
\* to signal the writer and to the report.
C14_FailureAborts ==
    (\E id \in Ids : taskState[id] = "failed") => ~Joined

\* C14 as amended: a task that exhausted its retries does not stop main: the
\* join over the tasks can complete, and a run that ended with such a task
\* ended after the writer was signalled and joined.
C14_FailureDoesNotAbort ==
    (\E id \in Ids : taskState[id] = "failed") =>
        /\ (mainPc = "dispatch" /\ dispatched = Len(sample_bag)
                /\ \A id \in Range(sample_bag) : Terminal(id))
               => ENABLED MainWait
        /\ mainPc = "error" => writerPc = "exit"
        /\ mainPc = "done" => csv.written = 1

\* C14: a run with a failed task has written its report.
C14_Witness ==
    /\ csv.written = 1
    /\ \E id \in Ids : taskState[id] = "failed"

\* C15: when the field is no column of the dataset, no task is dispatched, no
\* attempt is made and the progress counter is not updated.
C15_MissingFieldFatalAtStartup ==
    ~field_ok =>
        /\ dispatched = 0
        /\ taskState = NoTasks
        /\ attempt = Zeros
        /\ pbar = 0

\* C16: with an unreadable checkpoint at startup, main stops in its load: the
\* writer is not started, nothing is dispatched and the file stays as it was.
C16_CorruptCheckpointFatal ==
    startFile.state = "truncated" =>
        /\ mainPc \in {"plan", "error", "killed"}
        /\ writerPc = "none"
        /\ dispatched = 0
        /\ taskState = NoTasks
        /\ file = startFile

\* C16: a run has ended in its load of an unreadable checkpoint.
C16_Witness == startFile.state = "truncated" /\ mainPc = "error"

\* C17: at the report step the writer has left its loop with an empty queue
\* and the checkpoint holds, in all three mappings, every id translated in
\* this run and every id loaded at startup.
C17_NoResultLost ==
    mainPc \in {"report", "done"} =>
        /\ writerPc = "exit"
        /\ queue = <<>>
        /\ CheckpointIds(startFile) \subseteq CheckpointIds(file)
        /\ \A id \in Ids :
               taskState[id] = "ok" =>
                   /\ file.state = "ok"
                   /\ id \in DOMAIN file.data.query_inputs
                   /\ id \in DOMAIN file.data.llm_responses
                   /\ id \in DOMAIN file.data.llm_full_responses
                   /\ file.data.llm_responses[id] = Completion(Response(id, run))

\* C17: the report step is reached with a result of this run on top of a
\* checkpoint loaded at startup.
C17_Witness ==
    /\ mainPc = "report"
    /\ CheckpointIds(startFile) # {}
    /\ \E id \in Ids : taskState[id] = "ok"

\* a readable checkpoint holds every id of the startup checkpoint with its value
StartupKept ==
    (file.state = "ok" /\ startFile.state = "ok") =>
        \A id \in CheckpointIds(startFile) :
            /\ id \in DOMAIN file.data.query_inputs
            /\ id \in DOMAIN file.data.llm_responses
            /\ id \in DOMAIN file.data.llm_full_responses
            /\ file.data.query_inputs[id] = startFile.data.query_inputs[id]
            /\ file.data.llm_responses[id] = startFile.data.llm_responses[id]
            /\ file.data.llm_full_responses[id] =
                   startFile.data.llm_full_responses[id]

\* a rewrite starts from dictionaries that hold every key of the snapshot it
\* replaces, and ends with those dictionaries as the new snapshot
SnapshotGrows ==
    /\ (file.state = "ok" /\ file'.state = "truncated")
           => /\ DOMAIN file.data.query_inputs \subseteq DOMAIN wmem'.query_inputs
              /\ DOMAIN file.data.llm_responses \subseteq DOMAIN wmem'.llm_responses
              /\ DOMAIN file.data.llm_full_responses
                     \subseteq DOMAIN wmem'.llm_full_responses
    /\ (file.state = "truncated" /\ file'.state = "ok") => file'.data = wmem
    /\ (file.state = "ok" /\ file'.state = "ok") => file' = file
    /\ file'.state = "absent" => file.state = "absent"

\* C18: within a run every persisted snapshot holds the keys of the snapshot
\* before it and of the startup record, and the values of the startup ids
\* are unchanged.
C18_CheckpointGrows == [](StartupKept) /\ [][SnapshotGrows]_vars

\* C18: a run has persisted a snapshot that is larger than its startup record.
C18_Witness ==
    /\ run = 2
    /\ startFile.state = "ok"
    /\ file.state = "ok"
    /\ CheckpointIds(file) # CheckpointIds(startFile)

\* C19: every dispatched task reaches a terminal state; once main dispatches,
\* it reaches the report step with the writer exited and the queue drained;
\* the run ends.
C19_Termination ==
    /\ \A id \in Ids :
           (taskState[id] \in {"pending", "running"}) ~> Terminal(id)
    /\ (mainPc = "dispatch")
           ~> (mainPc = "report" /\ writerPc = "exit" /\ queue = <<>>)
    /\ <>(mainPc \in {"done", "error"})

\* C19: the join on the writer has returned in a run with a failed and a
\* successful task.
C19_Witness ==
    /\ mainPc = "report"
    /\ writerPc = "exit"
    /\ \E id \in Ids : taskState[id] = "failed"
    /\ \E id \in Ids : taskState[id] = "ok"

\* C20: the report is written at most once in a run and once in a run that
\* completes, only with the writer exited, no task waiting or running and the
\* queue empty; the checkpoint file exists when the report step is reached.
C20_ReportOnce ==
    /\ csv.written <= 1
    /\ mainPc = "done" => csv.written = 1
    /\ csv.written >= 1 =>
           /\ writerPc = "exit"
           /\ queue = <<>>
           /\ \A id \in Ids : taskState[id] \notin {"pending", "running"}
    /\ mainPc = "report" => file.state # "absent"

=============================================================================
